---- MODULE Spec2Model ----
(***************************************************************************)
(* Model of the log analysis pipeline of nishanthini2136/log_analyzer:     *)
(* the Gemini-backed analyzeWithAI (validation, redaction, fingerprint,    *)
(* file cache with TTL, external call, response validation, cache store)   *)
(* and the POST /analyze route handler that wraps it.                      *)
(*                                                                         *)
(* Every `await` of the code is a point where other requests, the clock    *)
(* and the file system may move, so each request is a small process whose  *)
(* pc names the await it is suspended at.                                  *)
(***************************************************************************)
EXTENDS Integers, Sequences, FiniteSets, TLC

VARIABLES
    clock,        \* Date.now(), in ms
    cache,        \* the files of CONFIG.CACHE_DIR, by content hash
    reqs,         \* the calls in flight, by slot
    last,         \* the call that returned in the step just taken, if any (history)
    recent,       \* the latest call that returned a fresh analysis (history)
    calls,        \* number of calls started so far
    backdates,    \* number of backdating operations so far
    aiSucceeded,  \* some external call has answered with a record that passed validation
    arg,          \* the argument of a function applied on its own (see the end)
    ret           \* and the value it returned

vars == <<clock, cache, reqs, last, recent, calls, backdates, aiSucceeded, arg, ret>>

----------------------------------------------------------------------------
(* Program constants (CONFIG).                                             *)

MAX_LOG_SIZE == 5 * 1024 * 1024

CACHE_TTL == 24 * 60 * 60 * 1000

(* Bounds of the model.                                                    *)

\* slots for calls
MaxSlots == 2

\* calls that can be in flight at once
MaxInFlight == 1

\* calls started in one behaviour
MaxCalls == 2

\* calls started in one behaviour of the repeated-submission scenario
MaxRepeatCalls == 3

\* the clock advances by 1 ms at most MaxMs times and by CACHE_TTL ms at
\* most MaxDays times in one behaviour
MaxMs == 1

MaxDays == 1

\* backdating operations on cache files in one behaviour
MaxBackdates == 1

\* calls started in one behaviour of the scenario with fair scheduling
MaxLiveCalls == 2

\* calls of the scenario with calls that overlap
MaxConcurrentCalls == 2

\* fragments a text given to the rule classifier is made of
MaxFragments == 3

\* fragments a text given to the redactors is made of
MaxPieces == 3

Slots == 1..MaxSlots

NoVal == [none |-> TRUE]

----------------------------------------------------------------------------
(* Log texts.  A text is a short sequence of tokens followed by `pad`      *)
(* ASCII filler characters 'x' (a run-length form, so that texts of        *)
(* MAX_LOG_SIZE bytes can be written down).  Tokens and the text they      *)
(* stand for:                                                              *)
(*   "SP"  " "            one whitespace character                         *)
(*   "ERR" "ERROR"        a plain word                                     *)
(*   "IP1" "10.0.0.1"     an IPv4 address                                  *)
(*   "IP2" "10.0.0.22"    another IPv4 address, one digit longer           *)
(*   "EUR" "€"            one UTF-16 unit, three UTF-8 bytes               *)
(*   "RED" "[REDACTED]"   the placeholder                                  *)
(***************************************************************************)

Text(toks, pad) == [toks |-> toks, pad |-> pad]

\* String.prototype.length of a token (UTF-16 code units)
TokChars(t) ==
    CASE t = "SP"  -> 1
      [] t = "ERR" -> 5
      [] t = "IP1" -> 8
      [] t = "IP2" -> 9
      [] t = "EUR" -> 1
      [] t = "RED" -> 10

\* UTF-8 bytes of a token
TokBytes(t) ==
    CASE t = "SP"  -> 1
      [] t = "ERR" -> 5
      [] t = "IP1" -> 8
      [] t = "IP2" -> 9
      [] t = "EUR" -> 3
      [] t = "RED" -> 10

RECURSIVE Chars(_)
Chars(s) == IF s = <<>> THEN 0 ELSE TokChars(Head(s)) + Chars(Tail(s))

RECURSIVE Bytes(_)
Bytes(s) == IF s = <<>> THEN 0 ELSE TokBytes(Head(s)) + Bytes(Tail(s))

\* log.length
Length(log) == Chars(log.toks) + log.pad

\* the size measured in characters instead of bytes
ByteLengthAsChars(log) == Length(log)

\* Buffer.byteLength(log, 'utf8')
ByteLength(log) == Bytes(log.toks) + log.pad

\* !log || log.trim() === ''
IsBlank(log) == log.pad = 0 /\ \A i \in 1..Len(log.toks) : log.toks[i] = "SP"

\* The texts submitted in the model: the empty text, a blank one, a short
\* one, one of exactly MAX_LOG_SIZE bytes and one of one byte more.  No text
\* has two addresses side by side ("10.0.0.110.0.0.22" would redact as one
\* address and a remainder), so the patterns match token by token.
Logs ==
    { Text(<<>>, 0),
      Text(<<"SP">>, 0),
      Text(<<"ERR", "SP", "IP1">>, 0),
      Text(<<"EUR">>, MAX_LOG_SIZE - 3),
      Text(<<"EUR">>, MAX_LOG_SIZE - 2) }

\* two texts that differ only in the address they name (and so in length)
RepeatLogs == { Text(<<"ERR", "SP", "IP1">>, 0), Text(<<"ERR", "SP", "IP2">>, 0) }

\* one replacement pass of CONFIG.REDACT_PATTERNS over a token: of the tokens
\* above only the IPv4 addresses match a pattern (IP)
RedactTok(t) == IF t \in {"IP1", "IP2"} THEN "RED" ELSE t

redactSensitiveInfo(content) ==
    Text([i \in 1..Len(content.toks) |-> RedactTok(content.toks[i])], content.pad)

\* SHA-256, hex: a deterministic digest, taken to be collision free
generateContentHash(content) == [sha256 |-> content]

----------------------------------------------------------------------------
(* The external service's answers.  A response text is a sequence of       *)
(* pieces: prose without braces, a complete JSON object, an object-like    *)
(* piece that is no valid JSON, a stray "{" or a stray "}".                *)

Piece(t, v) == [t |-> t, v |-> v]

Prose == Piece("prose", NoVal)
BadObj == Piece("badobj", NoVal)
OpenBrace == Piece("open", NoVal)
CloseBrace == Piece("close", NoVal)
Object(v) == Piece("obj", v)

\* the seven fields the prompt asks for
CoreFields ==
    {"issueType", "rootCause", "suggestedFix", "severity", "category",
     "confidence", "relatedLogs"}

Record7(issue, conf) ==
    [issueType |-> issue, rootCause |-> <<"db down">>, suggestedFix |-> <<"restart db">>,
     severity |-> "High", category |-> "database", confidence |-> conf,
     relatedLogs |-> <<"ECONNREFUSED">>]

Without(o, f) == [k \in DOMAIN o \ {f} |-> o[k]]

\* JSON objects the service may answer with: two complete records (the second
\* with a confidence above 100), one without relatedLogs, one without severity
Payloads ==
    { Record7("A", 85),
      Record7("B", 150),
      Without(Record7("A", 85), "relatedLogs"),
      Without(Record7("A", 85), "severity") }

Outcome(kind, message, text) == [kind |-> kind, message |-> message, text |-> text]

\* what `await model.generateContent(prompt)` / `await result.response` can do:
\* reject (with or without a message), resolve without text, resolve with text
AIOutcomes ==
    { Outcome("throw", <<"fetch failed">>, <<>>),
      Outcome("throw", <<>>, <<>>),
      Outcome("notext", <<>>, <<>>) }
    \cup { Outcome("text", <<>>, <<Object(p)>>) : p \in Payloads }
    \cup { Outcome("text", <<>>, <<Prose, Object(Record7("A", 85)), Prose>>),
           Outcome("text", <<>>, <<Prose>>),
           Outcome("text", <<>>, <<BadObj>>),
           Outcome("text", <<>>, <<Object(Record7("A", 85)), Prose, CloseBrace>>) }

HasOpen(p) == p.t \in {"obj", "badobj", "open"}
HasClose(p) == p.t \in {"obj", "badobj", "close"}

SetMin(S) == CHOOSE x \in S : \A y \in S : x <= y
SetMax(S) == CHOOSE x \in S : \A y \in S : x >= y

\* text.match(/\{[\s\S]*\}/): from the first "{" to the last "}" (greedy);
\* <<>> stands for null (no match)
jsonMatch(text) ==
    LET opens == {i \in 1..Len(text) : HasOpen(text[i])}
    IN  IF opens = {} THEN <<>>
        ELSE LET first == SetMin(opens)
                 closes == {i \in first..Len(text) :
                               /\ HasClose(text[i])
                               /\ (i = first => text[i].t # "open")}
             IN  IF closes = {} THEN <<>>
                 ELSE SubSeq(text, first, SetMax(closes))

\* JSON.parse succeeds exactly on one complete object
JSONparses(m) == Len(m) = 1 /\ m[1].t = "obj"

requiredFields ==
    <<"issueType", "rootCause", "suggestedFix", "severity", "category", "confidence">>

\* severity is not among the fields looked for
missingFieldsButSeverity(parsed) ==
    SelectSeq(<<"issueType", "rootCause", "suggestedFix", "category", "confidence">>,
              LAMBDA f : f \notin DOMAIN parsed)

\* requiredFields.filter(field => !(field in parsed))
missingFields(parsed) ==
    SelectSeq(requiredFields, LAMBDA f : f \notin DOMAIN parsed)

----------------------------------------------------------------------------
(* Results of analyzeWithAI.  A message is a sequence of strings (its      *)
(* parts); <<>> is the empty message.  Timestamps are kept as the          *)
(* millisecond value that toISOString formats.                             *)

ParseFailed == "Failed to parse AI response: "

\* the catch block of analyzeWithAI: { success: false, error, metadata }
Failure(message, startTime, now) ==
    [success |-> FALSE,
     error |-> [message |-> message, code |-> "AI_SERVICE_ERROR",
                processingTimeMs |-> now - startTime],
     metadata |-> [processingTimeMs |-> now - startTime]]

\* analysisResult: { ...parsed, logHash, analyzedAt, processingTimeMs }
AnalysisResult(parsed, log, redactedLog, logHash, startTime, now) ==
    [success |-> TRUE,
     analysis |-> [logHash |-> logHash, analyzedAt |-> now,
                   processingTimeMs |-> now - startTime] @@ parsed,
     metadata |-> [logSize |-> Length(log),
                   redactedLogSize |-> Length(redactedLog),
                   cacheHit |-> FALSE]]

\* what the code after `await model.generateContent` makes of the outcome:
\* either the parsed object or the message of the error thrown
Verdict(ok, parsed, message) == [ok |-> ok, parsed |-> parsed, message |-> message]

parseResponse(o) ==
    CASE o.kind = "throw" -> Verdict(FALSE, NoVal, o.message)
      [] o.kind = "notext" ->
            Verdict(FALSE, NoVal, <<"No valid response from AI service">>)
      [] o.kind = "text" ->
            LET m == jsonMatch(o.text)
            IN  IF m = <<>>
                THEN Verdict(FALSE, NoVal, <<ParseFailed, "No JSON found in AI response">>)
                ELSE IF ~JSONparses(m)
                THEN Verdict(FALSE, NoVal, <<ParseFailed, "Unexpected token in JSON">>)
                ELSE LET parsed == m[1].v
                         missing == missingFields(parsed)
                     IN  IF Len(missing) > 0
                         THEN Verdict(FALSE, NoVal,
                                  <<ParseFailed, "Missing required fields in AI response: ">>
                                      \o missing)
                         ELSE Verdict(TRUE, parsed, <<>>)

----------------------------------------------------------------------------
(* The POST /analyze route handler.                                        *)

Response(status, success, analysis, metadata, fallback, error) ==
    [status |-> status, success |-> success, analysis |-> analysis,
     metadata |-> metadata, fallback |-> fallback, error |-> error]

DefaultRootCause ==
    <<"The AI analysis service is currently unavailable or returned an invalid response.">>

\* the message alone, without the default
rootCauseNoDefault(aiResult) == aiResult.error.message

\* errorInfo?.message || '...'
rootCauseOf(aiResult) ==
    IF aiResult.error.message # <<>> THEN aiResult.error.message ELSE DefaultRootCause

\* the fallback branch: if (!aiResult || aiResult.success === false)
routeFallback(aiResult) ==
    Response(200, TRUE,
        [issueType |-> "Analysis service unavailable",
         rootCause |-> rootCauseOf(aiResult),
         suggestedFix |-> <<"Check the backend logs for AI service errors.",
                            "Verify GEMINI_API_KEY and network access to the Gemini API.">>,
         severity |-> "Medium",
         category |-> "configuration",
         confidence |-> 50,
         relatedLogs |-> <<"AI service error", "Gemini API", "GEMINI_API_KEY">>],
        aiResult.metadata, TRUE, NoVal)

\* the response the handler sends once analyzeWithAI has returned
routeRespond(aiResult) ==
    IF aiResult.success = FALSE
    THEN routeFallback(aiResult)
    ELSE Response(200, TRUE, aiResult.analysis, aiResult.metadata, FALSE, NoVal)

----------------------------------------------------------------------------
(* The result cache: one file per hash, with the content written and the   *)
(* modification time the file system keeps.  `ver` counts the              *)
(* modifications of the file (history only).                               *)

NoFile == [kind |-> "none", data |-> NoVal, mtime |-> 0, ver |-> 0]

File(data, mtime, ver) == [kind |-> "file", data |-> data, mtime |-> mtime, ver |-> ver]

\* the text JSON.stringify wrote, and what is left of an interrupted write
Json(val) == [json |-> TRUE, val |-> val]
Torn == [json |-> FALSE, val |-> NoVal]

\* the hashes the texts of the model can have
Keys == { generateContentHash(redactSensitiveInfo(l)) : l \in Logs \cup RepeatLogs }

\* an entry is dropped as soon as its age reaches the TTL
cacheExpiredAtTTL(file, now) == now - file.mtime >= CACHE_TTL

\* getCachedResult: if (Date.now() - stats.mtimeMs > CONFIG.CACHE_TTL) return null
cacheExpired(file, now) == now - file.mtime > CACHE_TTL

\* saveToCache: { ...result, cachedAt, expiresAt }
cacheEntry(result, now) ==
    [cachedAt |-> now, expiresAt |-> now + CACHE_TTL] @@ result

\* the hit is marked in the metadata as well
cachedResultMarksHit(cached) ==
    [cached |-> TRUE] @@ [cached EXCEPT !.metadata.cacheHit = TRUE]

\* analyzeWithAI on a hit: { ...cached, cached: true }
cachedResult(cached) == [cached |-> TRUE] @@ cached

----------------------------------------------------------------------------
(* Calls.                                                                  *)

Idle ==
    [pc |-> "idle", id |-> 0, via |-> "direct", upload |-> "ok",
     log |-> Text(<<>>, 0), force |-> FALSE, startTime |-> 0,
     redacted |-> NoVal, key |-> NoVal, prompt |-> NoVal,
     pending |-> NoVal, payload |-> NoVal, result |-> NoVal, resp |-> NoVal,
     rejected |-> "no", work |-> {}, get |-> "none", ai |-> "none", put |-> "none",
     prev |-> NoVal, freshAtStart |-> FALSE,
     gtime |-> 0, gexp |-> 0, gmtime |-> 0, seenVer |-> 0, wtime |-> 0, endVer |-> 0]

\* a text of exactly MAX_LOG_SIZE bytes is rejected too
validateInputAtLeast(log) ==
    IF IsBlank(log) THEN "EmptyInput"
    ELSE IF ByteLength(log) >= MAX_LOG_SIZE THEN "TooLarge"
    ELSE "ok"

\* analyzeWithAI, input validation
validateInput(log) ==
    IF IsBlank(log) THEN "EmptyInput"
    ELSE IF ByteLength(log) > MAX_LOG_SIZE THEN "TooLarge"
    ELSE "ok"

validationMessage(kind) ==
    IF kind = "EmptyInput"
    THEN <<"Log content is empty or invalid">>
    ELSE <<"Log exceeds maximum size of 5MB">>

\* analyzeWithAI returns aiResult; the route handler, when it is the caller,
\* answers with routeRespond(aiResult)
finish(r, aiResult) ==
    [r EXCEPT !.pc = "done", !.result = aiResult,
              !.resp = IF r.via = "route" THEN routeRespond(aiResult) ELSE NoVal]

\* the prompt is built around redactedLog and handed to model.generateContent
sendToAI(r) ==
    [r EXCEPT !.pc = "ai", !.prompt = r.redacted, !.work = @ \cup {"ai"}]

\* the text is redacted and hashed before it is validated
analyzeStartRedactFirst(r) ==
    LET v == validateInput(r.log)
        redactedLog == redactSensitiveInfo(r.log)
        logHash == generateContentHash(redactedLog)
        r1 == [r EXCEPT !.redacted = redactedLog, !.key = logHash,
                        !.work = {"redact", "hash"}]
    IN  IF v # "ok"
        THEN finish([r1 EXCEPT !.rejected = v],
                    Failure(validationMessage(v), r.startTime, r.startTime))
        ELSE IF r.force THEN sendToAI(r1)
        ELSE [r1 EXCEPT !.pc = "stat", !.work = @ \cup {"get"}]

\* the cache is looked up whether or not force is set
analyzeStartForceIgnored(r) ==
    LET v == validateInput(r.log)
    IN  IF v # "ok"
        THEN finish([r EXCEPT !.rejected = v],
                    Failure(validationMessage(v), r.startTime, r.startTime))
        ELSE LET redactedLog == redactSensitiveInfo(r.log)
                 logHash == generateContentHash(redactedLog)
             IN  [r EXCEPT !.redacted = redactedLog, !.key = logHash,
                           !.pc = "stat", !.work = {"redact", "hash", "get"}]

\* the text is hashed as it came, and redacted afterwards
analyzeStartHashFirst(r) ==
    LET v == validateInput(r.log)
    IN  IF v # "ok"
        THEN finish([r EXCEPT !.rejected = v],
                    Failure(validationMessage(v), r.startTime, r.startTime))
        ELSE LET logHash == generateContentHash(r.log)
                 redactedLog == redactSensitiveInfo(r.log)
                 r1 == [r EXCEPT !.redacted = redactedLog, !.key = logHash,
                                 !.work = {"hash", "redact"}]
             IN  IF r.force THEN sendToAI(r1)
                 ELSE [r1 EXCEPT !.pc = "stat", !.work = @ \cup {"get"}]

\* analyzeWithAI up to its first await: validation, redaction, hash, and
\* either the cache lookup or (force) the external call
analyzeStart(r) ==
    LET v == validateInput(r.log)
    IN  IF v # "ok"
        THEN finish([r EXCEPT !.rejected = v],
                    Failure(validationMessage(v), r.startTime, r.startTime))
        ELSE LET redactedLog == redactSensitiveInfo(r.log)
                 logHash == generateContentHash(redactedLog)
                 r1 == [r EXCEPT !.redacted = redactedLog, !.key = logHash,
                                 !.work = {"redact", "hash"}]
             IN  IF r.force THEN sendToAI(r1)
                 ELSE [r1 EXCEPT !.pc = "stat", !.work = @ \cup {"get"}]

\* the route handler up to `await analyzeWithAI(logText)`
routeStart(r) ==
    IF r.upload = "nofile"
    THEN [r EXCEPT !.pc = "done",
              !.resp = Response(400, FALSE, NoVal, NoVal, FALSE, <<"No file uploaded">>)]
    ELSE IF r.upload = "readfail"
    THEN [r EXCEPT !.pc = "done",
              !.resp = Response(500, FALSE, NoVal, NoVal, FALSE, <<"EIO">>)]
    ELSE IF IsBlank(r.log)
    THEN [r EXCEPT !.pc = "done", !.rejected = "EmptyInput",
              !.resp = Response(400, FALSE, NoVal, NoVal, FALSE,
                                <<"The uploaded file is empty">>)]
    ELSE analyzeStart(r)

----------------------------------------------------------------------------
(* Actions.                                                                *)

\* no call yet, the cache directory empty
InitPipeline ==
    /\ clock = 0
    /\ cache = [k \in Keys |-> NoFile]
    /\ reqs = [s \in Slots |-> Idle]
    /\ last = Idle
    /\ recent = NoVal
    /\ calls = 0
    /\ backdates = 0
    /\ aiSucceeded = FALSE

Init ==
    /\ InitPipeline
    /\ arg = NoVal
    /\ ret = NoVal

\* what is remembered of a call that returned a fresh analysis
Summary(r) ==
    [log |-> r.log, key |-> r.key, analysis |-> r.result.analysis, force |-> r.force,
     freshAtStart |-> r.freshAtStart, put |-> r.put, wtime |-> r.wtime,
     endVer |-> r.endVer]

\* slot s holds r from now on; a call that has returned leaves its slot and
\* is shown in `last` until the next step
Put(s, r) ==
    IF r.pc = "done"
    THEN /\ last' = r
         /\ reqs' = [reqs EXCEPT ![s] = Idle]
         /\ recent' = IF r.ai = "ok" /\ r.result.success THEN Summary(r) ELSE recent
    ELSE /\ reqs' = [reqs EXCEPT ![s] = r]
         /\ last' = Idle
         /\ UNCHANGED recent

\* the free slot a new call takes (the slots are interchangeable)
FreeSlot(s) ==
    /\ reqs[s].pc = "idle"
    /\ \A t \in Slots : t < s => reqs[t].pc # "idle"

\* what the new call can later be compared with: the latest fresh analysis,
\* when it was of a text with the same redaction
Previous(key) ==
    IF recent # NoVal /\ recent.key = key THEN recent ELSE NoVal

Fresh(via, upload, log, force) ==
    LET key == generateContentHash(redactSensitiveInfo(log))
    IN  [Idle EXCEPT !.id = calls + 1, !.via = via, !.upload = upload, !.log = log,
                     !.force = force, !.startTime = clock,
                     !.prev = Previous(key),
                     !.freshAtStart = /\ cache[key].kind = "file"
                                      /\ cache[key].data.json
                                      /\ ~cacheExpired(cache[key], clock)]

\* a call is made and runs up to its first await
Start(s, r, limit) ==
    /\ FreeSlot(s)
    /\ calls < limit
    /\ calls' = calls + 1
    /\ Put(s, r)
    /\ UNCHANGED <<clock, cache, backdates, aiSucceeded, arg, ret>>

Begin(s, r, limit) ==
    /\ s <= MaxInFlight
    /\ Start(s, r, limit)

\* POST /analyze with an uploaded file: the handler calls analyzeWithAI(logText)
RouteRequest(s, log, limit) ==
    Begin(s, routeStart(Fresh("route", "ok", log, FALSE)), limit)

\* POST /analyze without a file, or with a file that cannot be read back
UploadFailure(s, upload, limit) ==
    Begin(s, routeStart(Fresh("route", upload, Text(<<>>, 0), FALSE)), limit)

\* a direct call analyzeWithAI(log, { force })
DirectCall(s, log, force, limit) ==
    Begin(s, analyzeStart(Fresh("direct", "ok", log, force)), limit)

Step(s, r) ==
    /\ Put(s, r)
    /\ UNCHANGED <<clock, calls, backdates, arg, ret>>

\* the request goes on to the external call after a cache miss
miss(r, why) == sendToAI([r EXCEPT !.get = why])

\* getCachedResult, `await fs.stat(cachePath)` and the expiry check
CacheStat(s, io) ==
    LET r == reqs[s]
        file == cache[r.key]
        r1 == [r EXCEPT !.gtime = clock, !.seenVer = file.ver, !.gmtime = file.mtime,
                        !.gexp = IF file.kind = "file" /\ file.data.json
                                 THEN file.data.val.expiresAt ELSE 0]
    IN  /\ r.pc = "stat"
        /\ Step(s, IF io = "err" THEN miss(r1, "ioerror")
                   ELSE IF file.kind = "none" THEN miss(r1, "enoent")
                   ELSE IF cacheExpired(file, clock) THEN miss(r1, "expired")
                   ELSE [r1 EXCEPT !.pc = "read"])
        /\ UNCHANGED <<cache, aiSucceeded>>

\* getCachedResult, `await fs.readFile` and JSON.parse; on a hit analyzeWithAI
\* returns the cached result
CacheRead(s, io) ==
    LET r == reqs[s]
        file == cache[r.key]
        r1 == [r EXCEPT !.seenVer = file.ver,
                        !.gexp = IF file.data.json THEN file.data.val.expiresAt ELSE 0]
    IN  /\ r.pc = "read"
        /\ Step(s, IF io = "err" THEN miss(r1, "ioerror")
                   ELSE IF ~file.data.json THEN miss(r1, "corrupt")
                   ELSE finish([r1 EXCEPT !.get = "hit"], cachedResult(file.data.val)))
        /\ UNCHANGED <<cache, aiSucceeded>>

\* the external call settles: the response is parsed and validated, and the
\* result is assembled and handed to saveToCache
AIRespond(s, o) ==
    LET r == reqs[s]
        v == parseResponse(o)
    IN  /\ r.pc = "ai"
        /\ Step(s, IF v.ok
                   THEN [r EXCEPT !.pc = "mkdir", !.ai = "ok", !.work = @ \cup {"put"},
                                  !.pending = AnalysisResult(v.parsed, r.log, r.redacted,
                                                             r.key, r.startTime, clock)]
                   ELSE finish([r EXCEPT !.ai = "failed"],
                               Failure(v.message, r.startTime, clock)))
        /\ aiSucceeded' = (aiSucceeded \/ v.ok)
        /\ UNCHANGED cache

\* a failed save that reaches the caller as a failed analysis
saveFailedPropagates(r) ==
    Failure(<<ParseFailed, "EACCES">>, r.startTime, r.startTime)

\* saveToCache's catch: the error is logged and analyzeWithAI returns the result
saveFailed(r) == r.pending

\* saveToCache, `await fs.mkdir`; then the entry is serialised (with
\* Date.now()) and fs.writeFile is called
SaveMkdir(s, io) ==
    LET r == reqs[s]
    IN  /\ r.pc = "mkdir"
        /\ Step(s, IF io = "err"
                   THEN finish([r EXCEPT !.put = "mkdirfail", !.wtime = clock,
                                         !.endVer = cache[r.key].ver],
                               saveFailed(r))
                   ELSE [r EXCEPT !.pc = "write",
                                  !.payload = cacheEntry(r.pending, clock)])
        /\ UNCHANGED <<cache, aiSucceeded>>

\* saveToCache, `await fs.writeFile` settles: the file holds the entry, or the
\* write failed and left the file as it was, or left it cut short
SaveWrite(s, io) ==
    LET r == reqs[s]
        old == cache[r.key]
        new == CASE io = "ok"   -> File(Json(r.payload), clock, old.ver + 1)
                 [] io = "torn" -> File(Torn, clock, old.ver + 1)
                 [] io = "err"  -> old
    IN  /\ r.pc = "write"
        /\ cache' = [cache EXCEPT ![r.key] = new]
        /\ Step(s, finish([r EXCEPT !.put = IF io = "ok" THEN "ok" ELSE "writefail",
                                    !.wtime = clock, !.endVer = new.ver],
                          IF io = "ok" THEN r.pending ELSE saveFailed(r)))
        /\ UNCHANGED aiSucceeded

\* time passes
Tick(d) ==
    /\ d = 1 => clock % CACHE_TTL < MaxMs
    /\ d = CACHE_TTL => clock \div CACHE_TTL < MaxDays
    /\ clock' = clock + d
    /\ last' = Idle
    /\ UNCHANGED <<cache, reqs, recent, calls, backdates, aiSucceeded, arg, ret>>

\* a cache file is backdated by more than the TTL: either its modification
\* time (utimes), or the cachedAt/expiresAt written in it (the file rewritten)
Backdate(k, what) ==
    LET f == cache[k]
        shift == CACHE_TTL + 1
        e == f.data.val
    IN  /\ backdates < MaxBackdates
        /\ f.kind = "file" /\ f.data.json
        /\ backdates' = backdates + 1
        /\ cache' = [cache EXCEPT ![k] =
              IF what = "mtime"
              THEN File(f.data, f.mtime - shift, f.ver + 1)
              ELSE File(Json([e EXCEPT !.cachedAt = @ - shift, !.expiresAt = @ - shift]),
                        clock, f.ver + 1)]
        /\ last' = Idle
        /\ UNCHANGED <<clock, reqs, recent, calls, aiSucceeded, arg, ret>>

Next ==
    \/ \E s \in Slots, l \in Logs : RouteRequest(s, l, MaxCalls)
    \/ \E s \in Slots, u \in {"nofile", "readfail"} : UploadFailure(s, u, MaxCalls)
    \/ \E s \in Slots, l \in Logs, f \in BOOLEAN : DirectCall(s, l, f, MaxCalls)
    \/ \E s \in Slots, io \in {"ok", "err"} : CacheStat(s, io)
    \/ \E s \in Slots, io \in {"ok", "err"} : CacheRead(s, io)
    \/ \E s \in Slots, o \in AIOutcomes : AIRespond(s, o)
    \/ \E s \in Slots, io \in {"ok", "err"} : SaveMkdir(s, io)
    \/ \E s \in Slots, io \in {"ok", "torn", "err"} : SaveWrite(s, io)
    \/ \E d \in {1, CACHE_TTL} : Tick(d)
    \/ \E k \in Keys, w \in {"mtime", "expiresAt"} : Backdate(k, w)

Spec == Init /\ [][Next]_vars

(* The repeated-submission scenario: up to MaxRepeatCalls direct calls, with *)
(* and without force, of two texts that differ only in the address they     *)
(* name; the service answers with one of two complete records or fails.     *)

RepeatOutcomes ==
    { Outcome("text", <<>>, <<Object(Record7("A", 85))>>),
      Outcome("text", <<>>, <<Object(Record7("B", 150))>>),
      Outcome("throw", <<"fetch failed">>, <<>>) }

NextRepeat ==
    \/ \E s \in Slots, l \in RepeatLogs, f \in BOOLEAN : DirectCall(s, l, f, MaxRepeatCalls)
    \/ \E s \in Slots, io \in {"ok", "err"} : CacheStat(s, io)
    \/ \E s \in Slots, io \in {"ok", "err"} : CacheRead(s, io)
    \/ \E s \in Slots, o \in RepeatOutcomes : AIRespond(s, o)
    \/ \E s \in Slots, io \in {"ok", "err"} : SaveMkdir(s, io)
    \/ \E s \in Slots, io \in {"ok", "torn", "err"} : SaveWrite(s, io)
    \/ \E d \in {1, CACHE_TTL} : Tick(d)

SpecRepeat == Init /\ [][NextRepeat]_vars

(* The scenario with fair scheduling: requests to the route.  The file      *)
(* system calls (stat, readFile, mkdir, writeFile) always settle, so the    *)
(* steps that follow them are weakly fair.  The external call is awaited    *)
(* as it is (no timer, no AbortSignal, no Promise.race around               *)
(* model.generateContent), so whether AIRespond ever happens is up to the   *)
(* service: it carries no fairness.                                         *)

NextLive ==
    \/ \E s \in Slots, l \in RepeatLogs : RouteRequest(s, l, MaxLiveCalls)
    \/ \E s \in Slots, io \in {"ok", "err"} : CacheStat(s, io)
    \/ \E s \in Slots, io \in {"ok", "err"} : CacheRead(s, io)
    \/ \E s \in Slots, o \in RepeatOutcomes : AIRespond(s, o)
    \/ \E s \in Slots, io \in {"ok", "err"} : SaveMkdir(s, io)
    \/ \E s \in Slots, io \in {"ok", "torn", "err"} : SaveWrite(s, io)
    \/ \E d \in {1, CACHE_TTL} : Tick(d)

SpecLive ==
    /\ Init /\ [][NextLive]_vars
    /\ WF_vars(\E s \in Slots, io \in {"ok", "err"} : CacheStat(s, io))
    /\ WF_vars(\E s \in Slots, io \in {"ok", "err"} : CacheRead(s, io))
    /\ WF_vars(\E s \in Slots, io \in {"ok", "err"} : SaveMkdir(s, io))
    /\ WF_vars(\E s \in Slots, io \in {"ok", "torn", "err"} : SaveWrite(s, io))

(* The scenario with overlapping calls.  Every slot can be taken, so two    *)
(* calls are in flight at once.  fs.writeFile(path, data) is not one step   *)
(* of the file system: it opens the file with the flag 'w' (the file is     *)
(* created or cut to length 0), writes the data at offset 0 and closes it,  *)
(* and the opens and writes of two calls to writeFile interleave.  With one *)
(* call in flight, as in the scenarios above, nothing can come between the  *)
(* two, and SaveWrite makes them in one step.                               *)

\* two texts with the same hash and one with another
ConcurrentLogs == RepeatLogs \cup {Text(<<"EUR">>, MAX_LOG_SIZE - 3)}

RECURSIVE DecimalDigits(_)
DecimalDigits(n) == IF n < 10 THEN 1 ELSE 1 + DecimalDigits(n \div 10)

\* the length of JSON.stringify(entry), less the characters that every
\* entry of the model has: the numbers are what differs in length
stringifiedLength(entry) ==
    DecimalDigits(entry.analysis.confidence)
    + DecimalDigits(entry.analysis.processingTimeMs)
    + DecimalDigits(entry.metadata.logSize)
    + DecimalDigits(entry.metadata.redactedLogSize)

\* a file that holds the text of `entry` followed by what an earlier, longer
\* text left behind it
Spliced(entry, size) == [json |-> FALSE, val |-> NoVal, head |-> entry, size |-> size]

FileSize(data) ==
    IF data.json THEN stringifiedLength(data.val)
    ELSE IF "size" \in DOMAIN data THEN data.size
    ELSE 0

\* a direct call analyzeWithAI(log, { force }) while others are in flight
ConcurrentCall(s, log, force, limit) ==
    Start(s, analyzeStart(Fresh("direct", "ok", log, force)), limit)

\* saveToCache, fs.writeFile opens the file: it exists from now on and is empty
WriteOpen(s, io) ==
    LET r == reqs[s]
        old == cache[r.key]
    IN  /\ r.pc = "write"
        /\ cache' = [cache EXCEPT ![r.key] =
                        IF io = "ok" THEN File(Torn, clock, old.ver + 1) ELSE old]
        /\ Step(s, IF io = "ok" THEN [r EXCEPT !.pc = "writing"]
                   ELSE finish([r EXCEPT !.put = "writefail", !.wtime = clock,
                                         !.endVer = old.ver],
                               saveFailed(r)))
        /\ UNCHANGED aiSucceeded

\* saveToCache, fs.writeFile writes the text at offset 0 and settles: what the
\* file held beyond the end of the text stays
WriteData(s, io) ==
    LET r == reqs[s]
        old == cache[r.key]
        size == stringifiedLength(r.payload)
        new == IF io = "err" THEN old
               ELSE IF size >= FileSize(old.data)
               THEN File(Json(r.payload), clock, old.ver + 1)
               ELSE File(Spliced(r.payload, FileSize(old.data)), clock, old.ver + 1)
    IN  /\ r.pc = "writing"
        /\ cache' = [cache EXCEPT ![r.key] = new]
        /\ Step(s, finish([r EXCEPT !.put = IF io = "ok" THEN "ok" ELSE "writefail",
                                    !.wtime = clock, !.endVer = new.ver],
                          IF io = "ok" THEN r.pending ELSE saveFailed(r)))
        /\ UNCHANGED aiSucceeded

NextConcurrent ==
    \/ \E s \in Slots, l \in ConcurrentLogs :
          ConcurrentCall(s, l, FALSE, MaxConcurrentCalls)
    \/ \E s \in Slots, io \in {"ok", "err"} : CacheStat(s, io)
    \/ \E s \in Slots, io \in {"ok", "err"} : CacheRead(s, io)
    \/ \E s \in Slots, o \in RepeatOutcomes : AIRespond(s, o)
    \/ \E s \in Slots, io \in {"ok", "err"} : SaveMkdir(s, io)
    \/ \E s \in Slots, io \in {"ok", "err"} : WriteOpen(s, io)
    \/ \E s \in Slots, io \in {"ok", "err"} : WriteData(s, io)
    \/ Tick(1)

SpecConcurrent == Init /\ [][NextConcurrent]_vars

----------------------------------------------------------------------------
(* Regular expressions, as JavaScript's backtracking matcher runs them.    *)
(* A string is a sequence of characters (one-character strings); a         *)
(* position i lies after the first i characters.  Ends(re, ci, s, i) lists *)
(* the positions where a match of re that begins at i can end, in the      *)
(* order in which backtracking tries them, so its head is the match the    *)
(* engine reports.  ci is the i flag.                                      *)

UpperCase ==
    <<"A", "B", "C", "D", "E", "F", "G", "H", "I", "J", "K", "L", "M",
      "N", "O", "P", "Q", "R", "S", "T", "U", "V", "W", "X", "Y", "Z">>

LowerCase ==
    <<"a", "b", "c", "d", "e", "f", "g", "h", "i", "j", "k", "l", "m",
      "n", "o", "p", "q", "r", "s", "t", "u", "v", "w", "x", "y", "z">>

Range(f) == {f[i] : i \in DOMAIN f}

Digits == {"0", "1", "2", "3", "4", "5", "6", "7", "8", "9"}
Letters == Range(UpperCase) \cup Range(LowerCase)
\* \w and \s (the whitespace that occurs in the texts of the model)
WordChars == Letters \cup Digits \cup {"_"}
SpaceChars == {" ", "\n", "\r", "\t"}

\* the nodes of a pattern
OneOf(set) == [op |-> "in", set |-> set]
NoneOf(set) == [op |-> "notin", set |-> set]
WordBoundary == [op |-> "wordb"]
Cat(parts) == [op |-> "cat", parts |-> parts]
Alt(parts) == [op |-> "alt", parts |-> parts]
Rep(of, min, max) == [op |-> "rep", of |-> of, min |-> min, max |-> max, lazy |-> FALSE]
LazyRep(of, min, max) == [op |-> "rep", of |-> of, min |-> min, max |-> max, lazy |-> TRUE]

\* no upper limit on a repetition (longer than any text of the model)
Unbounded == 1000

\* the characters of a string written as a literal
Str(str) == [i \in 1..Len(str) |-> SubSeq(str, i, i)]

\* the characters of str, one after the other
Lit(str) == Cat([i \in 1..Len(str) |-> OneOf({SubSeq(str, i, i)})])
Opt(re) == Rep(re, 0, 1)
Plus(re) == Rep(re, 1, Unbounded)
Star(re) == Rep(re, 0, Unbounded)

\* the same letter in the other case
CaseSwap ==
    [c \in Letters |->
        IF c \in Range(UpperCase)
        THEN LowerCase[CHOOSE i \in 1..26 : UpperCase[i] = c]
        ELSE UpperCase[CHOOSE i \in 1..26 : LowerCase[i] = c]]

\* the character c belongs to the class `set`; with the i flag a letter
\* matches in either case
InClass(c, set, ci) ==
    c \in set \/ (ci /\ c \in Letters /\ CaseSwap[c] \in set)

\* \b at position i
AtWordBoundary(s, i) ==
    LET before == i >= 1 /\ s[i] \in WordChars
        after == i < Len(s) /\ s[i + 1] \in WordChars
    IN  before # after

\* a list without its repetitions, first occurrences kept
RECURSIVE Dedup(_)
Dedup(l) ==
    IF l = <<>> THEN <<>>
    ELSE LET rest == Dedup(SubSeq(l, 1, Len(l) - 1))
             x == l[Len(l)]
         IN  IF x \in Range(rest) THEN rest ELSE Append(rest, x)

RECURSIVE Flatten(_)
Flatten(ll) == IF ll = <<>> THEN <<>> ELSE Head(ll) \o Flatten(Tail(ll))

\* a repetition of one character class: the run of characters of the class
\* that begins at i, taken as far as it goes and given back one by one (a
\* lazy one: extended one by one)
EndsRun(re, ci, s, i) ==
    LET fits(c) == IF re.of.op = "in" THEN InClass(c, re.of.set, ci)
                   ELSE ~InClass(c, re.of.set, ci)
        most == IF re.max < Len(s) - i THEN re.max ELSE Len(s) - i
        run == SetMax({n \in 0..most : \A j \in 1..n : fits(s[i + j])})
    IN  IF run < re.min THEN <<>>
        ELSE [k \in 1..(run - re.min + 1) |->
                 IF re.lazy THEN i + re.min + k - 1 ELSE i + run - k + 1]

RECURSIVE Ends(_, _, _, _)
RECURSIVE EndsCat(_, _, _, _)
RECURSIVE EndsRep(_, _, _, _, _)

Ends(re, ci, s, i) ==
    CASE re.op = "in" ->
            IF i < Len(s) /\ InClass(s[i + 1], re.set, ci) THEN <<i + 1>> ELSE <<>>
      [] re.op = "notin" ->
            IF i < Len(s) /\ ~InClass(s[i + 1], re.set, ci) THEN <<i + 1>> ELSE <<>>
      [] re.op = "wordb" -> IF AtWordBoundary(s, i) THEN <<i>> ELSE <<>>
      [] re.op = "cat" -> EndsCat(re.parts, ci, s, i)
      [] re.op = "alt" ->
            Dedup(Flatten([k \in 1..Len(re.parts) |-> Ends(re.parts[k], ci, s, i)]))
      [] re.op = "rep" ->
            IF re.of.op \in {"in", "notin"} THEN EndsRun(re, ci, s, i)
            ELSE EndsRep(re, ci, s, i, 0)

\* the parts one after the other
EndsCat(parts, ci, s, i) ==
    IF parts = <<>> THEN <<i>>
    ELSE LET first == Ends(Head(parts), ci, s, i)
         IN  Dedup(Flatten([k \in 1..Len(first) |->
                                EndsCat(Tail(parts), ci, s, first[k])]))

\* re.of repeated, `done` repetitions made so far: a greedy repetition tries
\* one more before it stops, a lazy one the other way round; a repetition
\* that consumes nothing ends the loop
EndsRep(re, ci, s, i, done) ==
    LET step == IF done < re.max THEN Ends(re.of, ci, s, i) ELSE <<>>
        more == Flatten([k \in 1..Len(step) |->
                            IF step[k] > i THEN EndsRep(re, ci, s, step[k], done + 1)
                            ELSE <<>>])
        stop == IF done >= re.min THEN <<i>> ELSE <<>>
    IN  Dedup(IF re.lazy THEN stop \o more ELSE more \o stop)

\* the end of the match that begins at i; 0 stands for no match (no pattern
\* of the model matches the empty string)
MatchAt(re, ci, s, i) ==
    LET e == Ends(re, ci, s, i) IN IF e = <<>> THEN 0 ELSE Head(e)

\* RegExp.prototype.test without the g flag: some match anywhere
test(re, ci, s) == \E i \in 0..Len(s) : Ends(re, ci, s, i) # <<>>

\* String.prototype.replace(re, placeholder) with the g flag: the matches are
\* found from left to right, each search beginning where the last match ended
RECURSIVE replaceFrom(_, _, _, _, _)
replaceFrom(re, ci, placeholder, s, i) ==
    IF i >= Len(s) THEN <<>>
    ELSE LET e == MatchAt(re, ci, s, i)
         IN  IF e > i
             THEN placeholder \o replaceFrom(re, ci, placeholder, s, e)
             ELSE <<s[i + 1]>> \o replaceFrom(re, ci, placeholder, s, i + 1)

replace(s, re, ci, placeholder) == replaceFrom(re, ci, placeholder, s, 0)

----------------------------------------------------------------------------
(* The redactors, character by character.                                  *)

Digit == OneOf(Digits)

Pattern(name, re, ci, placeholder) ==
    [name |-> name, re |-> re, ci |-> ci, placeholder |-> Str(placeholder)]

\* CONFIG.REDACT_PATTERNS, in the order Object.values lists them; every one
\* is replaced by '[REDACTED]'

\* /(\d{1,3}\.){3}\d{1,3}/g
IP ==
    Pattern("IP",
        Cat(<<Rep(Cat(<<Rep(Digit, 1, 3), Lit(".")>>), 3, 3), Rep(Digit, 1, 3)>>),
        FALSE, "[REDACTED]")

\* /[a-zA-Z0-9._%+-]+@[a-zA-Z0-9.-]+\.[a-zA-Z]{2,}/g
EMAIL ==
    Pattern("EMAIL",
        Cat(<<Plus(OneOf(Letters \cup Digits \cup {".", "_", "%", "+", "-"})),
              Lit("@"),
              Plus(OneOf(Letters \cup Digits \cup {".", "-"})),
              Lit("."),
              Rep(OneOf(Letters), 2, Unbounded)>>),
        FALSE, "[REDACTED]")

\* /(?:key|api[_-]?key|token|secret)[=:]["']?([a-zA-Z0-9_\-]{20,})["']?/gi
API_KEY ==
    Pattern("API_KEY",
        Cat(<<Alt(<<Lit("key"),
                    Cat(<<Lit("api"), Opt(OneOf({"_", "-"})), Lit("key")>>),
                    Lit("token"),
                    Lit("secret")>>),
              OneOf({"=", ":"}),
              Opt(OneOf({"\"", "'"})),
              Rep(OneOf(Letters \cup Digits \cup {"_", "-"}), 20, Unbounded),
              Opt(OneOf({"\"", "'"}))>>),
        TRUE, "[REDACTED]")

\* /(https?:\/\/[^\s]+)/g
URL ==
    Pattern("URL",
        Cat(<<Lit("http"), Opt(Lit("s")), Lit("://"), Plus(NoneOf(SpaceChars))>>),
        FALSE, "[REDACTED]")

\* /(\/[\w\-\.]+)+/g
FILE_PATH ==
    Pattern("FILE_PATH",
        Plus(Cat(<<Lit("/"), Plus(OneOf(WordChars \cup {"-", "."}))>>)),
        FALSE, "[REDACTED]")

\* /\d{4}-\d{2}-\d{2}[T ]\d{2}:\d{2}:\d{2}(\.\d+)?(Z|[+-]\d{2}:?\d{2})?/g
TIMESTAMP ==
    Pattern("TIMESTAMP",
        Cat(<<Rep(Digit, 4, 4), Lit("-"), Rep(Digit, 2, 2), Lit("-"), Rep(Digit, 2, 2),
              OneOf({"T", " "}),
              Rep(Digit, 2, 2), Lit(":"), Rep(Digit, 2, 2), Lit(":"), Rep(Digit, 2, 2),
              Opt(Cat(<<Lit("."), Plus(Digit)>>)),
              Opt(Alt(<<Lit("Z"),
                        Cat(<<OneOf({"+", "-"}), Rep(Digit, 2, 2), Opt(Lit(":")),
                              Rep(Digit, 2, 2)>>)>>))>>),
        FALSE, "[REDACTED]")

\* /\b(?:\d[ -]*?){13,16}\b/g
CREDIT_CARD ==
    Pattern("CREDIT_CARD",
        Cat(<<WordBoundary,
              Rep(Cat(<<Digit, LazyRep(OneOf({" ", "-"}), 0, Unbounded)>>), 13, 16),
              WordBoundary>>),
        FALSE, "[REDACTED]")

\* /\b\d{3}[-.]?\d{2}[-.]?\d{4}\b/g
SSN ==
    Pattern("SSN",
        Cat(<<WordBoundary,
              Rep(Digit, 3, 3), Opt(OneOf({"-", "."})),
              Rep(Digit, 2, 2), Opt(OneOf({"-", "."})),
              Rep(Digit, 4, 4),
              WordBoundary>>),
        FALSE, "[REDACTED]")

REDACT_PATTERNS == <<IP, EMAIL, API_KEY, URL, FILE_PATH, TIMESTAMP, CREDIT_CARD, SSN>>

\* the replacements one after the other, each over the result of the last
RECURSIVE replaceEach(_, _)
replaceEach(s, list) ==
    IF list = <<>> THEN s
    ELSE replaceEach(replace(s, Head(list).re, Head(list).ci, Head(list).placeholder),
                     Tail(list))

\* redactSensitiveInfo of analyzeRoute.js on a string given by its characters
redactString(content) == replaceEach(content, REDACT_PATTERNS)

\* the replacements of redactSensitive (the upload script), in its order

\* /\b\d{1,3}(\.\d{1,3}){3}\b/g
scriptIP ==
    Pattern("IP",
        Cat(<<WordBoundary, Rep(Digit, 1, 3),
              Rep(Cat(<<Lit("."), Rep(Digit, 1, 3)>>), 3, 3), WordBoundary>>),
        FALSE, "[REDACTED_IP]")

\* /([A-Za-z]:)?(\/[A-Za-z0-9._-]+)+/g
scriptPath ==
    Pattern("PATH",
        Cat(<<Opt(Cat(<<OneOf(Letters), Lit(":")>>)),
              Plus(Cat(<<Lit("/"),
                         Plus(OneOf(Letters \cup Digits \cup {".", "_", "-"}))>>))>>),
        FALSE, "[REDACTED_PATH]")

\* /(key|token|api)[=: ]+[A-Za-z0-9-_]{10,}/gi
scriptKey ==
    Pattern("KEY",
        Cat(<<Alt(<<Lit("key"), Lit("token"), Lit("api")>>),
              Plus(OneOf({"=", ":", " "})),
              Rep(OneOf(Letters \cup Digits \cup {"-", "_"}), 10, Unbounded)>>),
        TRUE, "[REDACTED_KEY]")

\* /[A-Za-z0-9._%+-]+@[A-Za-z0-9.-]+\.[A-Z]{2,}/gi
scriptEmail ==
    Pattern("EMAIL",
        Cat(<<Plus(OneOf(Letters \cup Digits \cup {".", "_", "%", "+", "-"})),
              Lit("@"),
              Plus(OneOf(Letters \cup Digits \cup {".", "-"})),
              Lit("."),
              Rep(OneOf(Range(UpperCase)), 2, Unbounded)>>),
        TRUE, "[REDACTED_EMAIL]")

\* /\d{4}-\d{2}-\d{2} \d{2}:\d{2}:\d{2}/g
scriptTime ==
    Pattern("TIME",
        Cat(<<Rep(Digit, 4, 4), Lit("-"), Rep(Digit, 2, 2), Lit("-"), Rep(Digit, 2, 2),
              Lit(" "),
              Rep(Digit, 2, 2), Lit(":"), Rep(Digit, 2, 2), Lit(":"), Rep(Digit, 2, 2)>>),
        FALSE, "[REDACTED_TIME]")

\* redactSensitive(text)
redactSensitive(text) ==
    replaceEach(text, <<scriptIP, scriptPath, scriptKey, scriptEmail, scriptTime>>)

----------------------------------------------------------------------------
(* The rule classifier (aiService.js): analyzeWithAI(logText), here        *)
(* ruleAnalyzeWithAI.  All its patterns carry the i flag.                  *)

\* the characters `.` does not match
LineEnds == {"\n", "\r"}

Analysis(issueType, rootCause, suggestedFix, severity, category, confidence, relatedLogs) ==
    [issueType |-> issueType, rootCause |-> rootCause, suggestedFix |-> suggestedFix,
     severity |-> severity, category |-> category, confidence |-> confidence,
     relatedLogs |-> relatedLogs]

\* the initial values of the seven `let` variables
defaults ==
    Analysis(
        "No critical issues detected",
        "No obvious error signatures were found in the provided logs. The service appears healthy based on the available information.",
        <<"Continue monitoring logs for new errors or spikes in latency.",
          "Set up alerts on error rate, latency and resource usage if not already in place.">>,
        "Low", "informational", 50,
        <<>>)

Rule(name, match, update) == [name |-> name, match |-> match, update |-> update]

\* /\s(5\d{2})\s|500 Internal Server Error|HTTP 500/i
http_5xx ==
    Rule("http_5xx",
        Alt(<<Cat(<<OneOf(SpaceChars), OneOf({"5"}), OneOf(Digits), OneOf(Digits),
                    OneOf(SpaceChars)>>),
              Lit("500 Internal Server Error"),
              Lit("HTTP 500")>>),
        Analysis(
            "HTTP 5xx server error",
            "The logs show HTTP 5xx responses being returned to clients, indicating a server-side failure in handling requests.",
            <<"Inspect stack traces around the time of the 5xx responses to identify failing code paths.",
              "Check upstream dependencies (databases, external APIs) for errors or timeouts that could cause the server to fail.",
              "Add more structured logging (request id, user id, endpoint) around failing endpoints to narrow down the problem.">>,
            "High", "runtime", 80,
            <<"HTTP 500", "HTTP 502", "HTTP 503", "Unhandled exception">>))

\* /timeout|timed out|ESOCKETTIMEDOUT|ETIMEDOUT/i
timeout ==
    Rule("timeout",
        Alt(<<Lit("timeout"),
              Lit("timed out"),
              Lit("ESOCKETTIMEDOUT"),
              Lit("ETIMEDOUT")>>),
        Analysis(
            "Request or dependency timeout",
            "The logs contain timeout errors, suggesting that a downstream dependency or network call is not responding within the expected time.",
            <<"Identify which external service or database call is timing out and measure its typical response time.",
              "Increase the timeout threshold only if the dependency is known to be slow and cannot be optimized.",
              "Add retries with backoff and better error handling around slow network calls.">>,
            "High", "infrastructure", 75,
            <<"ETIMEDOUT", "ESOCKETTIMEDOUT", "request timeout">>))

\* /ECONNREFUSED.*(postgres|mysql|mongo|database)|database connection failed|
\*  could not connect to server/i
db_connection ==
    Rule("db_connection",
        Alt(<<Cat(<<Lit("ECONNREFUSED"), Star(NoneOf(LineEnds)),
                    Alt(<<Lit("postgres"), Lit("mysql"), Lit("mongo"), Lit("database")>>)>>),
              Lit("database connection failed"),
              Lit("could not connect to server")>>),
        Analysis(
            "Database connection failure",
            "The application is unable to establish or maintain a connection to the database. This can be due to configuration errors, network issues, or the database server being down.",
            <<"Verify database host, port, username, password and database name in the application configuration or environment variables.",
              "Check if the database server is running and reachable from the application host (e.g., using ping or telnet).",
              "Confirm that firewall rules and security groups allow traffic between the application and the database.">>,
            "Critical", "database", 85,
            <<"ECONNREFUSED", "connection refused", "could not connect to server">>))

\* /(SQLSTATE|syntax error at or near|duplicate key value violates unique
\*  constraint|deadlock detected)/i
db_query ==
    Rule("db_query",
        Alt(<<Lit("SQLSTATE"),
              Lit("syntax error at or near"),
              Lit("duplicate key value violates unique constraint"),
              Lit("deadlock detected")>>),
        Analysis(
            "Database query error",
            "The database is rejecting one or more queries, indicating problems such as invalid SQL syntax, constraint violations, or deadlocks.",
            <<"Inspect the failing SQL statement and verify table/column names, parameter types, and join conditions.",
              "Handle unique constraint violations by checking for existing records before inserts or using upserts where appropriate.",
              "If deadlocks occur, review transaction scope and lock usage to reduce contention.">>,
            "High", "database", 80,
            <<"SQLSTATE", "syntax error", "duplicate key", "deadlock detected">>))

\* /unauthorized|forbidden|401|403|invalid token|jwt/i
auth ==
    Rule("auth",
        Alt(<<Lit("unauthorized"),
              Lit("forbidden"),
              Lit("401"),
              Lit("403"),
              Lit("invalid token"),
              Lit("jwt")>>),
        Analysis(
            "Authentication or authorization failure",
            "The logs show repeated authentication or authorization errors, suggesting invalid credentials, expired tokens, or misconfigured access control.",
            <<"Verify token issuance (expiration time, audience, issuer) and ensure the API is validating them correctly.",
              "Check role/permission mappings to make sure users have the required access for the actions they are performing.",
              "Add clearer error messages and correlation ids for failed auth requests to aid debugging.">>,
            "Medium", "security", 70,
            <<"401 Unauthorized", "403 Forbidden", "invalid token">>))

\* /out of memory|heap limit|JavaScript heap out of memory|ENOMEM/i
oom ==
    Rule("oom",
        Alt(<<Lit("out of memory"),
              Lit("heap limit"),
              Lit("JavaScript heap out of memory"),
              Lit("ENOMEM")>>),
        Analysis(
            "Out-of-memory condition",
            "The process is running out of memory, which typically indicates a memory leak or workloads that exceed the available resources.",
            <<"Capture heap snapshots and analyze object retention to identify memory leaks.",
              "Review caching and in-memory data structures for unbounded growth.",
              "Increase memory limits for the service only after confirming that memory usage patterns are expected.">>,
            "Critical", "performance", 85,
            <<"heap out of memory", "ENOMEM", "Out of memory">>))

\* /exception|stack trace|unhandled rejection|fatal error|TypeError|ReferenceError/i
generic_error ==
    Rule("generic_error",
        Alt(<<Lit("exception"),
              Lit("stack trace"),
              Lit("unhandled rejection"),
              Lit("fatal error"),
              Lit("TypeError"),
              Lit("ReferenceError")>>),
        Analysis(
            "Application runtime error",
            "The logs show runtime exceptions being thrown by the application, which likely stem from unhandled edge cases, null values, or incorrect assumptions in the code.",
            <<"Review the stack trace to locate the exact function and line where the exception originates.",
              "Add input validation and null checks around the failing code path.",
              "Introduce structured error handling (try/catch, centralized error middleware) to catch and log exceptions consistently.">>,
            "High", "runtime", 75,
            <<"Unhandled exception", "TypeError", "ReferenceError", "stack trace">>))

\* /warn|deprecated|slow query|high latency/i
warning_only ==
    Rule("warning_only",
        Alt(<<Lit("warn"),
              Lit("deprecated"),
              Lit("slow query"),
              Lit("high latency")>>),
        Analysis(
            "Performance or warning signals detected",
            "The logs primarily contain warnings or performance-related messages (such as slow queries or elevated latency) rather than hard failures.",
            <<"Identify the endpoints or queries that show the highest latency and profile them.",
              "Optimize slow database queries using indexes, query rewrites, or caching.",
              "Set SLOs (service level objectives) and alerting thresholds for latency and error rate.">>,
            "Medium", "performance", 65,
            <<"WARN", "slow query", "high latency">>))

patterns ==
    <<http_5xx, timeout, db_connection, db_query, auth, oom, generic_error, warning_only>>

\* /error|fail(ed)?/i
errorKeyword == Alt(<<Lit("error"), Cat(<<Lit("fail"), Opt(Lit("ed"))>>)>>)

\* the record of the `else if` branch
genericError ==
    Analysis(
        "Generic error detected",
        "The logs contain error keywords but do not match a more specific pattern. There is likely a failure that requires manual inspection of the stack trace and recent changes.",
        <<"Inspect error messages and stack traces around the time of failure.",
          "Correlate the error with recent code or configuration changes.",
          "Add structured logging (request id, user id, feature flags) to improve observability.">>,
        "Medium", "runtime", 60,
        <<"error", "failed", "stack trace">>)

\* a value passed as logText: a string, undefined/null, or an object whose
\* toString() returns `text` or throws
JsString(str) == [type |-> "string", text |-> Str(str), throws |-> FALSE]
JsUndefined == [type |-> "undefined", text |-> <<>>, throws |-> FALSE]
JsObject(str, throws) == [type |-> "object", text |-> Str(str), throws |-> throws]

\* (logText || '').toString(), for a value whose toString() returns
toText(logText) ==
    IF logText.type = "undefined" THEN <<>> ELSE logText.text

\* the last rule that matches
findLast(list, text) ==
    LET M == {i \in 1..Len(list) : test(list[i].match, TRUE, text)}
    IN  IF M = {} THEN 0 ELSE SetMax(M)

\* patterns.find((p) => p.match.test(text)): the index of the first rule that
\* matches, 0 for undefined
find(list, text) ==
    LET M == {i \in 1..Len(list) : test(list[i].match, TRUE, text)}
    IN  IF M = {} THEN 0 ELSE SetMin(M)

\* analyzeWithAI of aiService.js
ruleAnalyzeWithAI(logText, now) ==
    IF logText.throws
    THEN [success |-> FALSE, error |-> "TypeError"]
    ELSE LET text == toText(logText)
             matched == find(patterns, text)
         IN  [success |-> TRUE,
              analysis |-> IF matched # 0 THEN patterns[matched].update
                           ELSE IF test(errorKeyword, TRUE, text) THEN genericError
                           ELSE defaults,
              metadata |-> [model |-> "pattern-based-log-analyzer", timestamp |-> now]]

(* The rule classifier applied on its own: a text (or another value) is     *)
(* chosen and classified.                                                   *)

pipeline == <<clock, cache, reqs, last, recent, calls, backdates, aiSucceeded>>

RuleFragments ==
    {" ", "\n", "503", "HTTP 500", "timeout", "ECONNREFUSED", "postgres", "SQLSTATE",
     "401", "ENOMEM", "Exception", "WARN", "error", "failed", "ok"}

RECURSIVE Concat(_)
Concat(strs) == IF strs = <<>> THEN "" ELSE Head(strs) \o Concat(Tail(strs))

\* the strings made of at most n of the fragments F
Joined(F, n) == UNION {{Concat(f) : f \in [1..k -> F]} : k \in 0..n}

RuleInputs ==
    {JsString(t) : t \in Joined(RuleFragments, MaxFragments)}
    \cup {JsUndefined, JsObject("[object Object]", FALSE), JsObject("", TRUE)}

InitRules ==
    /\ InitPipeline
    /\ arg \in RuleInputs
    /\ ret = NoVal

Classify ==
    /\ ret = NoVal
    /\ ret' = ruleAnalyzeWithAI(arg, clock)
    /\ UNCHANGED <<pipeline, arg>>

SpecRules == InitRules /\ [][Classify]_vars

----------------------------------------------------------------------------
(* The redactors applied to a text, and to their own output.               *)

RedactFragments ==
    {" ", "x", "1.2.3.4", "a@b.co", "key=", "abcdefghijklmnopqrst", "http://x",
     "/etc", "2024-01-01 10:00:00", "1234567890123", "123-45-6789", "[REDACTED]"}

RedactInputs == Joined(RedactFragments, MaxPieces)

InitRedact ==
    /\ InitPipeline
    /\ arg \in RedactInputs
    /\ ret = NoVal

\* redactSensitiveInfo(arg) and redactSensitive(arg)
Redact ==
    /\ ret = NoVal
    /\ ret' = [times |-> 1,
               info |-> Concat(redactString(Str(arg))),
               sensitive |-> Concat(redactSensitive(Str(arg)))]
    /\ UNCHANGED <<pipeline, arg>>

\* each redactor applied to what it returned
RedactAgain ==
    /\ ret # NoVal /\ ret.times = 1
    /\ ret' = [times |-> 2,
               info |-> Concat(redactString(Str(ret.info))),
               sensitive |-> Concat(redactSensitive(Str(ret.sensitive))),
               once |-> ret]
    /\ UNCHANGED <<pipeline, arg>>

NextRedact == Redact \/ RedactAgain

SpecRedact == InitRedact /\ [][NextRedact]_vars

----------------------------------------------------------------------------
(* Properties.                                                             *)

\* the calls the current state shows: the one that has just returned and the
\* ones in flight
Shown == {last} \cup {reqs[s] : s \in Slots}

\* what the caller of a call that has returned holds: the HTTP response for a
\* request to the route, the value of analyzeWithAI for a direct call
Returned(r) == IF r.via = "route" THEN r.resp ELSE r.result

HasField(o, f) == f \in DOMAIN o

\* the seven core fields are present and none of the textual ones is empty
Populated(a) ==
    /\ CoreFields \subseteq DOMAIN a
    /\ a.issueType # ""
    /\ a.rootCause # <<>>
    /\ a.suggestedFix # <<>>
    /\ a.severity # ""
    /\ a.category # ""

\* C1: as long as no external call has produced a valid record, every request
\* to the route with a non-blank log text is answered with success = true and
\* an incident record whose seven core fields are all populated.
C1_FallbackGuarantee ==
    (/\ ~aiSucceeded
     /\ last.pc = "done" /\ last.via = "route" /\ last.upload = "ok"
     /\ ~IsBlank(last.log))
    => /\ last.resp.success = TRUE
       /\ last.resp.analysis # NoVal
       /\ Populated(last.resp.analysis)

\* the external call failed without a message and the route answered with the
\* fallback record and its default root cause
C1_Witness ==
    /\ ~aiSucceeded
    /\ last.pc = "done" /\ last.via = "route" /\ last.ai = "failed"
    /\ last.result.error.message = <<>>
    /\ last.resp.success = TRUE /\ last.resp.fallback = TRUE
    /\ last.resp.analysis.rootCause = DefaultRootCause

\* C2: every record returned to a caller has all seven core fields; a record
\* the service sent without one of them is never surfaced.
C2_AllSevenFields ==
    (last.pc = "done" /\ Returned(last).success = TRUE)
    => CoreFields \subseteq DOMAIN Returned(last).analysis

\* C3: the confidence of every record returned or stored lies in 0..100.
C3_ConfidenceInRange ==
    /\ (last.pc = "done" /\ Returned(last).success = TRUE)
       => Returned(last).analysis.confidence \in 0..100
    /\ \A k \in Keys :
          (cache[k].kind = "file" /\ cache[k].data.json)
          => cache[k].data.val.analysis.confidence \in 0..100

\* C4: a request whose log text is blank or larger than the maximum is
\* answered with an error, never with success = true.
C4_ValidationRejected ==
    (/\ last.pc = "done" /\ last.via = "route" /\ last.upload = "ok"
     /\ (IsBlank(last.log) \/ ByteLength(last.log) > MAX_LOG_SIZE))
    => /\ last.resp.success = FALSE
       /\ last.resp.status = 400

\* C5: a non-blank text is rejected as too large exactly when its UTF-8 byte
\* length exceeds MAX_LOG_SIZE; a text of exactly MAX_LOG_SIZE bytes goes on
\* to redaction.
C5_SizeBoundary ==
    \A r \in Shown :
        (r.pc # "idle" /\ r.upload = "ok" /\ ~IsBlank(r.log))
        => IF ByteLength(r.log) > MAX_LOG_SIZE
           THEN /\ r.pc = "done" /\ r.rejected = "TooLarge"
                /\ r.result.success = FALSE
                /\ r.result.error.message = <<"Log exceeds maximum size of 5MB">>
                /\ "redact" \notin r.work
           ELSE r.rejected = "no" /\ "redact" \in r.work

\* a text of exactly MAX_LOG_SIZE bytes (fewer characters) was analysed
C5_Witness ==
    /\ last.pc = "done"
    /\ ByteLength(last.log) = MAX_LOG_SIZE /\ Length(last.log) < MAX_LOG_SIZE
    /\ last.rejected = "no" /\ "redact" \in last.work /\ "ai" \in last.work

\* C6: a call rejected by validation does no redaction, no hashing, no cache
\* lookup, no external call and no cache write, and leaves the cache as it was.
C6_RejectedDoesNothing ==
    [][(last'.pc = "done" /\ last'.rejected # "no")
       => /\ cache' = cache
          /\ last'.work = {}
          /\ last'.redacted = NoVal /\ last'.key = NoVal /\ last'.prompt = NoVal
          /\ last'.get = "none" /\ last'.ai = "none" /\ last'.put = "none"]_vars

\* a text of more than MAX_LOG_SIZE bytes was rejected while the cache held an
\* entry
C6_Witness ==
    /\ last.pc = "done" /\ last.rejected = "TooLarge" /\ last.work = {}
    /\ \E k \in Keys : cache[k].kind = "file"

\* the comparison of a call with the latest fresh analysis of a text with the
\* same redaction: no write between the two, and the lookup within the TTL
Repeats(r) ==
    /\ r.pc = "done" /\ ~r.force /\ r.prev # NoVal
    /\ r.seenVer = r.prev.endVer
    /\ r.gtime - r.prev.wtime <= CACHE_TTL

SameButTime(a, b) == Without(a, "processingTimeMs") = Without(b, "processingTimeMs")

ForceSkipsLookup ==
    \A r \in Shown :
        (r.pc # "idle" /\ r.force /\ r.rejected = "no")
        => /\ r.get = "none" /\ "get" \notin r.work
           /\ "ai" \in r.work
           /\ r.pc = "done" => ~HasField(r.result, "cached")

\* the entry holds the result the call returned
Overwritten(r) ==
    /\ cache[r.key].kind = "file" /\ cache[r.key].data.json
    /\ cache[r.key].data.val.analysis = r.result.analysis

C9_ExpiryByExpiresAt ==
    \A r \in Shown :
        /\ r.get = "hit" => r.gtime <= r.gexp
        /\ r.get = "expired" => (r.gtime > r.gexp /\ cache[r.key].kind = "file")

\* C10: a failed cache lookup is a miss and the call goes on to the external
\* call; a failed cache write leaves the computed result as the return value;
\* a call fails only by validation or by the external call.
C10_CacheFailuresInvisible ==
    \A r \in Shown :
        /\ r.get \in {"enoent", "ioerror", "corrupt", "expired"} => "ai" \in r.work
        /\ (r.pc = "done" /\ r.put \in {"mkdirfail", "writefail"})
           => (r.result = r.pending /\ r.result.success = TRUE)
        /\ (r.pc = "done" /\ r.result # NoVal /\ r.result.success = FALSE)
           => (r.rejected # "no" \/ r.ai = "failed")

\* the lookup and the write of one call both failed and the call returned the
\* analysis
C10_Witness ==
    /\ last.pc = "done" /\ last.get = "ioerror" /\ last.put = "writefail"
    /\ last.result.success = TRUE /\ last.result = last.pending

\* C11: every request eventually returns a response, even if the external
\* service never answers: no request waits for the service forever.
C11_EventuallyReturns ==
    \A s \in Slots : (reqs[s].pc # "idle") ~> (reqs[s].pc = "idle")

\* C12: every record returned by analyzeWithAI carries a boolean cached
\* indicator, true exactly when the record came from the cache, and
\* metadata.cacheHit agrees with it.
C12_CachedIndicator ==
    (last.pc = "done" /\ last.via = "direct" /\ last.result.success = TRUE)
    => /\ HasField(last.result, "cached")
       /\ last.result.cached = (last.get = "hit")
       /\ last.result.metadata.cacheHit = last.result.cached

\* the order of the rules as the specification lists it
RuleOrder ==
    <<"http_5xx", "timeout", "db_connection", "db_query", "auth", "oom",
      "generic_error", "warning_only">>

RuleNamed(n) == CHOOSE r \in Range(patterns) : r.name = n

Matches(n, text) == test(RuleNamed(n).match, TRUE, text)

\* C13: the record of the rule classifier is the template of the first rule,
\* in the order http_5xx, timeout, db_connection, db_query, auth, oom,
\* generic_error, warning_only, whose pattern matches the text; a text with
\* both an HTTP 5xx marker and an Exception token yields the HTTP 5xx record.
C13_FirstMatchWins ==
    (ret # NoVal /\ ~arg.throws)
    => LET text == toText(arg)
       IN  /\ \A k \in 1..Len(RuleOrder) :
                 (/\ Matches(RuleOrder[k], text)
                  /\ \A j \in 1..(k - 1) : ~Matches(RuleOrder[j], text))
                 => ret.analysis = RuleNamed(RuleOrder[k]).update
           /\ (Matches("http_5xx", text) /\ Matches("generic_error", text))
              => /\ ret.analysis.issueType = "HTTP 5xx server error"
                 /\ ret.analysis.confidence = 80

\* a text with "HTTP 500" and "Exception" was classified as HTTP 5xx
C13_Witness ==
    /\ ret # NoVal /\ ~arg.throws
    /\ Matches("http_5xx", toText(arg)) /\ Matches("generic_error", toText(arg))
    /\ Matches("warning_only", toText(arg))
    /\ ret.analysis = http_5xx.update

\* C14: the rule classifier returns, for every input, success = true and a
\* record with all seven fields, a severity of the four, a confidence in
\* 0..100 and a non-empty suggestedFix; and the record is a rule's template,
\* or the generic-error record (less confident than every rule) when only an
\* error keyword occurs, or the 'No critical issues detected' record.
C14_RuleClassifierTotal ==
    ret # NoVal
    => /\ ret.success = TRUE
       /\ HasField(ret, "analysis")
       /\ CoreFields \subseteq DOMAIN ret.analysis
       /\ ret.analysis.severity \in {"Low", "Medium", "High", "Critical"}
       /\ ret.analysis.confidence \in 0..100
       /\ ret.analysis.suggestedFix # <<>>
       /\ LET text == toText(arg)
               any == \E k \in 1..Len(RuleOrder) : Matches(RuleOrder[k], text)
               keyword == test(errorKeyword, TRUE, text)
           IN  /\ any => \E k \in 1..Len(RuleOrder) :
                             ret.analysis = RuleNamed(RuleOrder[k]).update
               /\ (~any /\ keyword)
                  => /\ ret.analysis.issueType = "Generic error detected"
                     /\ \A k \in 1..Len(RuleOrder) :
                           ret.analysis.confidence
                               < RuleNamed(RuleOrder[k]).update.confidence
               /\ (~any /\ ~keyword)
                  => /\ ret.analysis.issueType = "No critical issues detected"
                     /\ ret.analysis.severity = "Low"
                     /\ ret.analysis.category = "informational"

\* C15: redacting a text that was already redacted changes nothing, for the
\* redactor of the pipeline (redactSensitiveInfo, eight patterns replaced by
\* '[REDACTED]') and for redactSensitive with its placeholder per category,
\* so a redacted text has the cache key of its source.
C15_RedactionIdempotent ==
    (ret # NoVal /\ ret.times = 2)
    => /\ ret.info = ret.once.info
       /\ ret.sensitive = ret.once.sensitive

\* the required fields that the object in the answer o lacks
Lacking(o) ==
    IF o.kind = "text" /\ JSONparses(jsonMatch(o.text))
    THEN Range(requiredFields) \ DOMAIN jsonMatch(o.text)[1].v
    ELSE {}

\* the call failed, or its answer does not parse, or a required field is absent
Rejects(o) ==
    \/ o.kind # "text"
    \/ ~JSONparses(jsonMatch(o.text))
    \/ Lacking(o) # {}

\* the results the cache holds: the content of the files that parse
Entries == {cache[k].data.val : k \in {h \in Keys : cache[h].kind = "file" /\ cache[h].data.json}}

\* what an answer o that is rejected leads to
RejectedAnswer(s, o) ==
    (AIRespond(s, o) /\ Rejects(o))
    => /\ last'.pc = "done"
       /\ last'.result.success = FALSE
       /\ ~HasField(last'.result, "analysis")
       /\ Lacking(o) \subseteq Range(last'.result.error.message)
       /\ last'.put = "none" /\ "put" \notin last'.work
       /\ cache' = cache

\* C16: when the external call fails, or its answer cannot be parsed or lacks
\* one of the six required fields, analyzeWithAI returns a failure without an
\* analysis whose message names the missing fields, and writes nothing to the
\* cache; and every result the cache holds has success = true and an analysis
\* with the six required fields.
C16_OnlyValidatedResultsCached ==
    /\ [][\A s \in Slots, o \in AIOutcomes : RejectedAnswer(s, o)]_vars
    /\ [](\A e \in Entries :
             /\ e.success = TRUE
             /\ Range(requiredFields) \subseteq DOMAIN e.analysis)

\* an answer without severity was rejected while the cache held a result
C16_Witness ==
    /\ last.pc = "done" /\ last.ai = "failed"
    /\ last.result.success = FALSE
    /\ "severity" \in Range(last.result.error.message)
    /\ last.put = "none"
    /\ Entries # {}

\* the piece that closes the brace opened before piece i, d braces being open
\* there; 0 when it is never closed
RECURSIVE CloseOf(_, _, _)
CloseOf(text, i, d) ==
    IF i > Len(text) THEN 0
    ELSE IF text[i].t = "open" THEN CloseOf(text, i + 1, d + 1)
    ELSE IF text[i].t = "close"
    THEN (IF d = 1 THEN i ELSE CloseOf(text, i + 1, d - 1))
    ELSE CloseOf(text, i + 1, d)

\* the first balanced {...} of a response text; <<>> when there is none
FirstBalanced(text) ==
    LET starts == {i \in 1..Len(text) :
                      \/ text[i].t \in {"obj", "badobj"}
                      \/ text[i].t = "open" /\ CloseOf(text, i + 1, 1) > 0}
    IN  IF starts = {} THEN <<>>
        ELSE LET i == SetMin(starts)
             IN  IF text[i].t = "open" THEN SubSeq(text, i, CloseOf(text, i + 1, 1))
                 ELSE <<text[i]>>

\* the text is one JSON object with the six required fields
ValidRecord(m) ==
    /\ Len(m) = 1 /\ m[1].t = "obj"
    /\ Range(requiredFields) \subseteq DOMAIN m[1].v

\* what becomes of an answer that contains a balanced object
FirstObjectTaken(s, o) ==
    (AIRespond(s, o) /\ o.kind = "text" /\ FirstBalanced(o.text) # <<>>)
    => /\ jsonMatch(o.text) = FirstBalanced(o.text)
       /\ ValidRecord(FirstBalanced(o.text))
          => /\ reqs'[s].ai = "ok"
             /\ reqs'[s].pending.success = TRUE

\* C17: of a response text with at least one balanced JSON object, the first
\* balanced {...} is what is handed to the JSON parser, whatever prose, "}" or
\* further objects follow it; so a response whose first balanced object is a
\* valid record is accepted even when braces follow.
C17_FirstBalancedObject ==
    [][\A s \in Slots, o \in AIOutcomes : FirstObjectTaken(s, o)]_vars

\* the calls that have passed the validation of analyzeWithAI
Validated ==
    {r \in Shown : r.pc # "idle" /\ r.upload = "ok" /\ r.rejected = "no"}

\* C18: in every call that passes validation, the text that is hashed into
\* the cache key and the log text put into the prompt for the external
\* service are the redactor's output for the raw input; the raw text is
\* neither hashed nor sent.
C18_RedactBeforeHashAndSend ==
    \A r \in Validated :
        LET redactedLog == redactSensitiveInfo(r.log)
        IN  /\ {"redact", "hash"} \subseteq r.work
            /\ r.redacted = redactedLog
            /\ r.key = generateContentHash(redactedLog)
            /\ "ai" \in r.work <=> r.prompt # NoVal
            /\ r.prompt # NoVal => r.prompt = redactedLog
            /\ redactedLog # r.log
               => /\ r.key # generateContentHash(r.log)
                  /\ r.prompt # r.log

\* a text with an address in it was hashed and sent to the service
C18_Witness ==
    \E r \in Validated :
        /\ redactSensitiveInfo(r.log) # r.log
        /\ r.key = generateContentHash(redactSensitiveInfo(r.log))
        /\ r.pc = "ai" /\ r.prompt = redactSensitiveInfo(r.log)

\* (a) a step that changes the file of one hash is a step of saveToCache for
\* that hash, and leaves the files of the other hashes as they were
OtherKeysUntouched ==
    \A k \in Keys :
        cache'[k] # cache[k]
        => /\ \E s \in Slots : reqs[s].pc \in {"write", "writing"} /\ reqs[s].key = k
           /\ \A j \in Keys \ {k} : cache'[j] = cache[j]

\* (b) the call in slot s completes its write after a call for the same hash,
\* which was in flight together with it, has completed its own: the file
\* then holds the entry of the call in slot s, whole
LastWriterWins(s) ==
    (/\ reqs[s].pc = "writing"
     /\ last'.pc = "done" /\ last'.id = reqs[s].id /\ last'.put = "ok"
     /\ reqs[s].prev = NoVal
     /\ recent # NoVal /\ recent.key = reqs[s].key /\ recent.put = "ok")
    => cache'[reqs[s].key].data = Json(reqs[s].payload)

\* (c) a lookup that returns something returns one whole entry of its hash
ReadsWhole(r) ==
    r.get = "hit"
    => /\ DOMAIN r.result
             = {"success", "analysis", "metadata", "cachedAt", "expiresAt", "cached"}
       /\ r.result.success = TRUE
       /\ r.result.analysis.logHash = r.key
       /\ CoreFields \subseteq DOMAIN r.result.analysis
       /\ r.result.expiresAt = r.result.cachedAt + CACHE_TTL

\* C19: under any interleaving of calls, (a) a write for one hash never
\* changes the entry of another hash, (b) when two overlapping successful
\* analyses of the same hash have both completed, the entry is the complete
\* record of the one that wrote last, and (c) a lookup that overlaps a write
\* returns nothing or one complete record, never a partial or mixed one.
C19_LastWriterWins ==
    /\ [][OtherKeysUntouched /\ \A s \in Slots : LastWriterWins(s)]_vars
    /\ [](\A r \in Shown : ReadsWhole(r))

\* the characters a token stands for
Spell(t) ==
    CASE t = "SP"  -> " "
      [] t = "ERR" -> "ERROR"
      [] t = "IP1" -> "10.0.0.1"
      [] t = "IP2" -> "10.0.0.22"
      [] t = "EUR" -> "€"
      [] t = "RED" -> "[REDACTED]"

\* a text without filler, character by character
Spelled(log) == Str(Concat([i \in 1..Len(log.toks) |-> Spell(log.toks[i])]))

\* the call r follows the analysis of another text
FollowsOther(r) == Repeats(r) /\ r.log # r.prev.log

\* r was served the record stored for the earlier text, and no external call
\* was made for it
ServedStored(r) ==
    /\ r.get = "hit" /\ "ai" \notin r.work /\ r.prompt = NoVal
    /\ Without(r.result, "cached") = cache[r.key].data.val
    /\ r.result.analysis = r.prev.analysis
    /\ r.result.analysis.logHash = generateContentHash(redactSensitiveInfo(r.prev.log))
    /\ r.result.metadata.logSize = Length(r.prev.log)

\* the two texts have the same redaction, character by character, and so
\* the same hash
SameFingerprint(r) ==
    /\ redactString(Spelled(r.log)) = redactString(Spelled(r.prev.log))
    /\ redactString(Spelled(r.log)) = Spelled(redactSensitiveInfo(r.log))
    /\ r.key = r.prev.key

====
